---- MODULE Spec2Model ----
(***************************************************************************)
(* The configuration persistence layer of the etho_sensor firmware         *)
(* (src/accessories/etho_sensor): the Storage facade of storage.h, its     *)
(* additive checksum (storage.cpp) and the configuration record of         *)
(* structs.h, on both build variants: ESP8266 (EEPROM_Rotate block         *)
(* storage) and ESP32 (Preferences key-value store).                       *)
(*                                                                         *)
(* A char[20] field is a sequence of 20 bytes (0..255); a C string is the  *)
(* bytes before the first 0.  The record's raw bytes are its four fields   *)
(* followed by the two bytes of the uint16_t checksum.                     *)
(***************************************************************************)
EXTENDS Integers, Sequences, FiniteSets, TLC

VARIABLES
    backend,      \* "EEPROM" (ESP8266 build) or "PREFS" (ESP32 build)
    initialized,  \* Storage::initialized
    lastError,    \* Storage::lastError
    eeprom,       \* EEPROM_Rotate's RAM buffer: marker byte, record, dirty flag
    flash,        \* what the last successful commit() left in flash
    preferences,  \* the Preferences namespace "app": key -> value
    out,          \* the record loadConfig was last handed, as the call left it
    call,         \* the last Storage call: operation, arguments, return value
    saved,        \* the record of the last saveConfig that returned true, if
                  \* nothing has been written since
    flips,        \* number of single-byte corruptions of the stored record
    writes,       \* number of saveConfig, updateField, clear and handleConfig
                  \* calls so far
    prev,         \* the last saveConfig, updateField or clear of this run: its
                  \* result, and what the medium held when it was called
    twin,         \* the ESP32 build given the same calls as an ESP8266 build
    cfg,          \* the in-memory mirror (extern configuration cfg, network.h)
    request,      \* the request handleConfig last served, and what its
                  \* storage calls returned
    response,     \* the HTTP response handleConfig last sent
    cleared,      \* "cleared" from a clear that returned true until a
                  \* saveConfig returns true, "restored" from then until
                  \* the next write call, "no" otherwise
    millis,       \* the millisecond clock, an unsigned long (32 bits)
    wifi,         \* setupWiFi: where it is, startAttemptTime, what it
                  \* returned, and the WiFi and mDNS state beside it
    env,          \* the sensor reading mirror (extern environment env)
    poll          \* the last readSensorData: what the sensors delivered
                  \* and what it returned

\* the state outside the persistence layer
peripherals == <<millis, wifi, env, poll>>

vars == <<backend, initialized, lastError, eeprom, flash, preferences, out,
          call, saved, flips, writes, prev, twin, cfg, request,
          response, cleared, millis, wifi, env, poll>>

-----------------------------------------------------------------------------
(* Program constants *)

\* structs.h: char location[20], name[20], wifi_ssid[20], wifi_pwd[20]
FieldSize == 20

\* StorageError (storage.h)
NONE == "NONE"
NOT_INITIALIZED == "NOT_INITIALIZED"
WRITE_FAILED == "WRITE_FAILED"
READ_FAILED == "READ_FAILED"
VALIDATION_FAILED == "VALIDATION_FAILED"
COMMIT_FAILED == "COMMIT_FAILED"
INVALID_FIELD == "INVALID_FIELD"

\* config.h: WIFI_CONNECT_TIMEOUT, in milliseconds
WIFI_CONNECT_TIMEOUT == 30000

\* network.cpp: delay(100) in the wait loop of setupWiFi
DelayMs == 100

\* wl_status_t: the value setupWiFi compares with, and the others as one
WL_CONNECTED == "WL_CONNECTED"
WL_DISCONNECTED == "WL_DISCONNECTED"

StorageError == {NONE, NOT_INITIALIZED, WRITE_FAILED, READ_FAILED,
                 VALIDATION_FAILED, COMMIT_FAILED, INVALID_FIELD}

-----------------------------------------------------------------------------
(* Bounds of the model *)

\* how many times a byte of the stored record is corrupted in one behaviour
MaxFlips == 1
\* how many saveConfig, updateField and clear calls one behaviour makes
MaxWrites == 2
\* the garbage byte that fills the bytes after a terminator in some inputs
TailByte == 7
\* the length of the longest value a request or an updateField call carries
LongLen == 21
\* the longest a delay(100) overruns, in milliseconds, when other tasks hold
\* the processor
MaxLag == 9900

-----------------------------------------------------------------------------
(* C strings and the configuration record *)

Min(a, b) == IF a < b THEN a ELSE b

\* strlen: the number of bytes before the first 0, found by scanning from
\* the first byte (every buffer of the model holds a terminator; the scan
\* of one that did not would stop at the buffer's end)
RECURSIVE ScanFrom(_, _)
ScanFrom(buf, i) ==
    IF i > Len(buf) \/ buf[i] = 0 THEN i - 1 ELSE ScanFrom(buf, i + 1)
strlen(buf) == ScanFrom(buf, 1)

\* the C string held in a buffer
CStr(buf) == SubSeq(buf, 1, strlen(buf))

\* faulty variant: strcpy, every character of src and a terminator, past
\* the end of dst when src is longer
strlcpy_Unbounded(dst, src, size) ==
    LET n == Len(src)
        m == IF n + 1 > Len(dst) THEN n + 1 ELSE Len(dst)
    IN  [i \in 1..m |->
            IF i <= n THEN src[i] ELSE IF i = n + 1 THEN 0 ELSE dst[i]]

\* strlcpy(dst, src, size): at most size-1 characters, then a terminator;
\* the bytes of dst after the terminator are left as they were
strlcpy(dst, src, size) ==
    LET n == Min(Len(src), size - 1)
    IN  [i \in 1..Len(dst) |->
            IF i <= n THEN src[i] ELSE IF i = n + 1 THEN 0 ELSE dst[i]]

\* strcmp(a, b) == 0
StrEq(a, b) == CStr(a) = CStr(b)

\* the loop of calculateChecksum over one run of bytes
RECURSIVE SumFrom(_, _)
SumFrom(s, i) == IF i > Len(s) THEN 0 ELSE s[i] + SumFrom(s, i + 1)
SumBytes(s) == SumFrom(s, 1)

\* calculateChecksum: the sum of every raw byte of the struct, the two bytes
\* of the checksum field included, in a uint16_t
calculateChecksum(c) ==
    (SumBytes(c.location) + SumBytes(c.name) + SumBytes(c.wifi_ssid)
       + SumBytes(c.wifi_pwd) + (c.checksum % 256) + (c.checksum \div 256))
    % 65536

\* the configuration struct of structs.h, in declaration order
Record(loc, nam, ssid, pwd, sum) ==
    [location |-> loc, name |-> nam, wifi_ssid |-> ssid, wifi_pwd |-> pwd,
     checksum |-> sum]

\* a buffer holding the string s, every byte after it equal to g
\* (g = 0: a zero-filled buffer; the terminator is always present)
Buffer(s, g) ==
    [i \in 1..FieldSize |->
        IF i <= Len(s) THEN s[i] ELSE IF i = Len(s) + 1 THEN 0 ELSE g]

ZeroBuffer == [i \in 1..FieldSize |-> 0]
ZeroRecord == Record(ZeroBuffer, ZeroBuffer, ZeroBuffer, ZeroBuffer, 0)

-----------------------------------------------------------------------------
(* The two media.  EEPROM_Rotate keeps a RAM copy of the sector: write and *)
(* put change the copy (and mark it dirty when a byte differs), read and   *)
(* get read the copy, commit flushes a dirty copy to flash and may fail.   *)
(* Preferences writes each key through to flash; putString returns the     *)
(* number of characters written (0 on failure), putUShort the number of    *)
(* bytes written (0 on failure).                                           *)

\* eeprom.write(EEPROM_START, v)
EepromWrite(e, v) ==
    IF e.marker = v THEN e ELSE [e EXCEPT !.marker = v, !.dirty = TRUE]

\* eeprom.put(EEPROM_START + 1, c)
EepromPut(e, c) ==
    IF e.rec = c THEN e ELSE [e EXCEPT !.rec = c, !.dirty = TRUE]

\* faulty variant: commit reports success without writing the sector
EepromCommit_Lost(e, fl, ok) == [ret |-> TRUE, eeprom |-> e, flash |-> fl]

\* eeprom.commit(); ok: the flash write succeeds
EepromCommit(e, fl, ok) ==
    IF ~e.dirty THEN [ret |-> TRUE, eeprom |-> e, flash |-> fl]
    ELSE IF ok
         THEN [ret |-> TRUE, eeprom |-> [e EXCEPT !.dirty = FALSE],
               flash |-> [marker |-> e.marker, rec |-> e.rec]]
         ELSE [ret |-> FALSE, eeprom |-> e, flash |-> fl]

\* eeprom.read(EEPROM_START)
EepromRead(e) == e.marker

\* the RAM copy between commit and read-back; hit: its marker byte does not
\* hold what was written
Glitch(e, hit) == IF hit THEN [e EXCEPT !.marker = (@ + 1) % 256] ELSE e

\* eeprom.begin(EEPROM_SIZE): the RAM copy is read from flash
EepromBegin(fl) == [marker |-> fl.marker, rec |-> fl.rec, dirty |-> FALSE]

NoKeys == [k \in {} |-> 0]

\* preferences.getString(k, "")
getString(p, k) == IF k \in DOMAIN p THEN p[k] ELSE <<>>

\* preferences.getUShort(k, 0)
getUShort(p, k) == IF k \in DOMAIN p THEN p[k] ELSE 0

\* preferences.putString(k, v); ok: the medium accepts the write.
\* n is the size_t the call returns: strlen(v), or 0 when the write failed
putString(p, k, v, ok) ==
    [preferences |-> IF ok THEN (k :> v) @@ p ELSE p,
     n |-> IF ok THEN Len(v) ELSE 0]

\* preferences.putUShort(k, v)
putUShort(p, k, v, ok) ==
    [preferences |-> IF ok THEN (k :> v) @@ p ELSE p,
     n |-> IF ok THEN 2 ELSE 0]

-----------------------------------------------------------------------------
(* Storage (storage.h), as functions of the state they read.  Each returns *)
(* the call's return value, the lastError it leaves, and what it wrote.    *)

\* faulty variant: the initialized check left out
Uninitialized_Unchecked(init) == FALSE

\* "if (!initialized)": the check that opens saveConfig, loadConfig,
\* updateField and clear
Uninitialized(init) == ~init

\* faulty variant: begin opens the backend on every call
AlreadyInitialized_Reopens(init) == FALSE

\* "if (initialized) return true;": the check that opens begin
AlreadyInitialized(init) == init

\* "valid != 1": the block variant's marker check in loadConfig
MarkerInvalid(valid) == valid # 1

\* faulty variant: the checksums are computed but not compared
ChecksumMismatch_Ignored(loaded, calculated) == FALSE

\* "loaded_checksum != calculated_checksum"
ChecksumMismatch(loaded, calculated) == loaded # calculated

\* faulty variant: && for ||, so one empty WiFi field passes
WifiFieldEmpty_Both(c) == strlen(c.wifi_ssid) = 0 /\ strlen(c.wifi_pwd) = 0

\* faulty variant: the WiFi validation left out
WifiFieldEmpty_Skipped(c) == FALSE

\* "strlen(cfg.wifi_ssid) == 0 || strlen(cfg.wifi_pwd) == 0"
WifiFieldEmpty(c) == strlen(c.wifi_ssid) = 0 \/ strlen(c.wifi_pwd) = 0

\* faulty variant: the read-back is not compared
ReadBackMatches_Skipped(c, sum, verify_marker, verify_cfg) == TRUE

\* "success = (verify_marker == 1) && ...": the read-back verification of
\* saveConfig; sum is cfg_with_checksum.checksum
ReadBackMatches(c, sum, verify_marker, verify_cfg) ==
    /\ verify_marker = 1
    /\ verify_cfg.checksum = sum
    /\ StrEq(c.name, verify_cfg.name)
    /\ StrEq(c.location, verify_cfg.location)
    /\ StrEq(c.wifi_ssid, verify_cfg.wifi_ssid)
    /\ StrEq(c.wifi_pwd, verify_cfg.wifi_pwd)

\* saveConfig, ESP8266: marker, record, commit, read-back; fault: 0 = the
\* commit fails, 7 = the RAM copy does not hold the marker written,
\* otherwise none
saveConfig_eeprom(c, e, fl, fault) ==
    LET cfg_with_checksum == [c EXCEPT !.checksum = calculateChecksum(c)]
        written == EepromPut(EepromWrite(e, 1), cfg_with_checksum)
        committed == EepromCommit(written, fl, fault # 0)
        ram == Glitch(committed.eeprom, fault = 7)
        verify_marker == EepromRead(ram)
        verify_cfg == ram.rec
        success == ReadBackMatches(c, cfg_with_checksum.checksum,
                                   verify_marker, verify_cfg)
    IN  IF ~committed.ret
        THEN [ret |-> FALSE, err |-> COMMIT_FAILED,
              eeprom |-> committed.eeprom, flash |-> committed.flash]
        ELSE [ret |-> success,
              err |-> IF success THEN NONE ELSE WRITE_FAILED,
              eeprom |-> ram, flash |-> committed.flash]

\* saveConfig, ESP32: five key writes chained by &&, so the first call that
\* returns 0 ends the chain; failAt is the write the medium refuses (6: none)
saveConfig_prefs(c, p, failAt) ==
    LET cfg_with_checksum == [c EXCEPT !.checksum = calculateChecksum(c)]
        w1 == putString(p, "name", CStr(c.name), failAt # 1)
        w2 == putString(w1.preferences, "location", CStr(c.location),
                        failAt # 2)
        w3 == putString(w2.preferences, "wifi_ssid", CStr(c.wifi_ssid),
                        failAt # 3)
        w4 == putString(w3.preferences, "wifi_pwd", CStr(c.wifi_pwd),
                        failAt # 4)
        w5 == putUShort(w4.preferences, "checksum",
                        cfg_with_checksum.checksum, failAt # 5)
        last == IF w1.n = 0 THEN w1
                ELSE IF w2.n = 0 THEN w2
                ELSE IF w3.n = 0 THEN w3
                ELSE IF w4.n = 0 THEN w4
                ELSE w5
        success == last.n # 0
    IN  [ret |-> success,
         err |-> IF success THEN NONE ELSE WRITE_FAILED,
         preferences |-> last.preferences]

\* the checksum gate and the WiFi gate that close loadConfig on both
\* variants; c is the record as read, its checksum field still the stored one
loadGates(c) ==
    LET loaded_checksum == c.checksum
        zeroed == [c EXCEPT !.checksum = 0]
        calculated_checksum == calculateChecksum(zeroed)
    IN  IF ChecksumMismatch(loaded_checksum, calculated_checksum)
        THEN [ret |-> FALSE, err |-> VALIDATION_FAILED, cfg |-> zeroed]
        ELSE IF WifiFieldEmpty(zeroed)
        THEN [ret |-> FALSE, err |-> VALIDATION_FAILED, cfg |-> zeroed]
        ELSE [ret |-> TRUE, err |-> NONE, cfg |-> zeroed]

\* loadConfig, ESP8266; c0 is the caller's record before the call
loadConfig_eeprom(c0, e) ==
    LET valid == e.marker
    IN  IF MarkerInvalid(valid)
        THEN [ret |-> FALSE, err |-> VALIDATION_FAILED, cfg |-> c0]
        ELSE loadGates(e.rec)

\* loadConfig, ESP32: each string is copied with strlcpy into the caller's
\* record, whose bytes after the terminator stay as they were
loadConfig_prefs(c0, p) ==
    LET name == getString(p, "name")
        read == Record(
            strlcpy(c0.location, getString(p, "location"), FieldSize),
            strlcpy(c0.name, name, FieldSize),
            strlcpy(c0.wifi_ssid, getString(p, "wifi_ssid"), FieldSize),
            strlcpy(c0.wifi_pwd, getString(p, "wifi_pwd"), FieldSize),
            getUShort(p, "checksum"))
    IN  IF Len(name) = 0
        THEN [ret |-> FALSE, err |-> VALIDATION_FAILED, cfg |-> c0]
        ELSE loadGates(read)

\* updateField, ESP8266: load, overwrite one field, save.  The local record
\* is written whole by eeprom.get before it is read, so its initial bytes
\* (ZeroRecord here) never show.
updateField_eeprom(field, value, e, fl, ok) ==
    LET loaded == loadConfig_eeprom(ZeroRecord, e)
        c == loaded.cfg
        known == field \in {"name", "location", "wifi_ssid", "wifi_pwd"}
        changed ==
            IF field = "name"
            THEN [c EXCEPT !.name = strlcpy(c.name, value, FieldSize)]
            ELSE IF field = "location"
            THEN [c EXCEPT !.location = strlcpy(c.location, value, FieldSize)]
            ELSE IF field = "wifi_ssid"
            THEN [c EXCEPT !.wifi_ssid = strlcpy(c.wifi_ssid, value, FieldSize)]
            ELSE [c EXCEPT !.wifi_pwd = strlcpy(c.wifi_pwd, value, FieldSize)]
        s == saveConfig_eeprom(changed, e, fl, IF ok THEN 6 ELSE 0)
    IN  IF ~loaded.ret
        THEN [ret |-> FALSE, err |-> loaded.err, eeprom |-> e, flash |-> fl]
        ELSE IF ~known
        THEN [ret |-> FALSE, err |-> INVALID_FIELD, eeprom |-> e, flash |-> fl]
        ELSE [ret |-> s.ret, err |-> NONE, eeprom |-> s.eeprom,
              flash |-> s.flash]

\* updateField, ESP32: one putString, its size_t result taken as a bool
updateField_prefs(field, value, p, ok) ==
    LET w == putString(p, field, value, ok)
        success == w.n # 0
    IN  [ret |-> success,
         err |-> IF success THEN NONE ELSE WRITE_FAILED,
         preferences |-> w.preferences]

\* clear, ESP8266: the marker is cleared and committed; lastError is not set
clear_eeprom(e, fl, ok) == EepromCommit(EepromWrite(e, 0), fl, ok)

\* clear, ESP32: preferences.clear() erases every key of the namespace
clear_prefs(p, ok) ==
    [ret |-> ok, preferences |-> IF ok THEN NoKeys ELSE p]

\* The facade: the static members of Storage and the medium behind them as
\* one value, and each public function of build b ("EEPROM": ESP8266,
\* "PREFS": ESP32) as a function from that value to the return value and
\* the members and medium it leaves.
Store(init, err, e, fl, p) ==
    [initialized |-> init, lastError |-> err, eeprom |-> e, flash |-> fl,
     preferences |-> p]

Storage_begin(b, st, openOk) ==
    IF AlreadyInitialized(st.initialized)
    THEN [ret |-> TRUE, st |-> st]
    ELSE IF b = "EEPROM"
    THEN [ret |-> TRUE,
          st |-> [st EXCEPT !.eeprom = EepromBegin(st.flash),
                            !.initialized = TRUE, !.lastError = NONE]]
    ELSE [ret |-> openOk,
          st |-> [st EXCEPT !.initialized = openOk,
                            !.lastError = IF openOk THEN NONE
                                          ELSE NOT_INITIALIZED]]

Storage_saveConfig(b, st, c, fault) ==
    IF Uninitialized(st.initialized)
    THEN [ret |-> FALSE, st |-> [st EXCEPT !.lastError = NOT_INITIALIZED]]
    ELSE IF b = "EEPROM"
    THEN LET r == saveConfig_eeprom(c, st.eeprom, st.flash, fault)
         IN  [ret |-> r.ret,
              st |-> [st EXCEPT !.lastError = r.err, !.eeprom = r.eeprom,
                                !.flash = r.flash]]
    ELSE LET r == saveConfig_prefs(c, st.preferences, fault)
         IN  [ret |-> r.ret,
              st |-> [st EXCEPT !.lastError = r.err,
                                !.preferences = r.preferences]]

\* cfg: the caller's record when the call returns
Storage_loadConfig(b, st, c0) ==
    IF Uninitialized(st.initialized)
    THEN [ret |-> FALSE, st |-> [st EXCEPT !.lastError = NOT_INITIALIZED],
          cfg |-> c0]
    ELSE LET r == IF b = "EEPROM" THEN loadConfig_eeprom(c0, st.eeprom)
                  ELSE loadConfig_prefs(c0, st.preferences)
         IN  [ret |-> r.ret, st |-> [st EXCEPT !.lastError = r.err],
              cfg |-> r.cfg]

Storage_updateField(b, st, field, value, ok) ==
    IF Uninitialized(st.initialized)
    THEN [ret |-> FALSE, st |-> [st EXCEPT !.lastError = NOT_INITIALIZED]]
    ELSE IF b = "EEPROM"
    THEN LET r == updateField_eeprom(field, value, st.eeprom, st.flash, ok)
         IN  [ret |-> r.ret,
              st |-> [st EXCEPT !.lastError = r.err, !.eeprom = r.eeprom,
                                !.flash = r.flash]]
    ELSE LET r == updateField_prefs(field, value, st.preferences, ok)
         IN  [ret |-> r.ret,
              st |-> [st EXCEPT !.lastError = r.err,
                                !.preferences = r.preferences]]

\* clear leaves lastError as it was once past the initialized check
Storage_clear(b, st, ok) ==
    IF Uninitialized(st.initialized)
    THEN [ret |-> FALSE, st |-> [st EXCEPT !.lastError = NOT_INITIALIZED]]
    ELSE IF b = "EEPROM"
    THEN LET r == clear_eeprom(st.eeprom, st.flash, ok)
         IN  [ret |-> r.ret,
              st |-> [st EXCEPT !.eeprom = r.eeprom, !.flash = r.flash]]
    ELSE LET r == clear_prefs(st.preferences, ok)
         IN  [ret |-> r.ret, st |-> [st EXCEPT !.preferences = r.preferences]]

-----------------------------------------------------------------------------
(* Inputs *)

\* "s1", "lab", "NET", "pw", "n2"
S1 == <<115, 49>>
LAB == <<108, 97, 98>>
NET == <<78, 69, 84>>
PW == <<112, 119>>
N2 == <<110, 50>>

\* the byte sum of the four string fields of c
FieldSum(c) ==
    SumBytes(c.location) + SumBytes(c.name) + SumBytes(c.wifi_ssid)
      + SumBytes(c.wifi_pwd)

\* a caller's record holding the strings f = <<location, name, ssid, pwd>>:
\* every byte after a terminator is g, and the checksum field is 0, 1, or
\* the byte sum of the fields ("consistent")
MkRecord(f, g, k) ==
    LET c == Record(Buffer(f[1], g), Buffer(f[2], g), Buffer(f[3], g),
                    Buffer(f[4], g), 0)
    IN  [c EXCEPT !.checksum =
            IF k = "zero" THEN 0 ELSE IF k = "one" THEN 1 ELSE FieldSum(c)]

AllSet == <<LAB, S1, NET, PW>>

\* "bal", "1s": the letters of "lab" and of "s1" in another order
BAL == <<98, 97, 108>>
S1R == <<49, 115>>

\* the records offered to saveConfig: every string set, with each checksum
\* field and with garbage after the terminators; the password or the name
\* empty; and another name and location
InputRecords ==
    {MkRecord(AllSet, 0, k) : k \in {"zero", "one", "consistent"}}
    \cup {MkRecord(AllSet, TailByte, "zero")}
    \cup {MkRecord(f, 0, "zero") :
            f \in {<<LAB, S1, NET, <<>>>>, <<LAB, <<>>, NET, PW>>,
                   <<BAL, S1R, NET, PW>>}}

\* what the caller's record may hold when it is handed to loadConfig
JunkRecord ==
    LET b == [i \in 1..FieldSize |-> TailByte]
    IN  Record(b, b, b, b, TailByte)
OutRecords == {ZeroRecord, JunkRecord}

\* the field names handed to updateField directly: one of the two free
\* texts, one of the two WiFi fields, and a name that is not a field
Fields == {"name", "wifi_ssid", "bogus_field"}
KnownFields == {"name", "location", "wifi_ssid", "wifi_pwd"}
Values == {<<>>, N2}

\* flash as the device may first find it: erased to 0xFF, or zeroed with
\* the marker byte 0 or 1
ErasedFF ==
    LET b == [i \in 1..FieldSize |-> 255]
    IN  [marker |-> 255, rec |-> Record(b, b, b, b, 65535)]
InitialFlash ==
    {ErasedFF, [marker |-> 0, rec |-> ZeroRecord],
     [marker |-> 1, rec |-> ZeroRecord]}

\* call: the operation, its return value, its field/value arguments
\* (updateField) and the record it was handed (saveConfig, loadConfig)
Call(op, ret, field, value, rec) ==
    [op |-> op, ret |-> ret, field |-> field, value |-> value, rec |-> rec]
NoCall == Call("none", FALSE, "", <<>>, ZeroRecord)
NoSaved == [set |-> FALSE, rec |-> ZeroRecord, flips |-> 0]

\* prev: a write call (saveConfig, updateField, clear), what it returned, the
\* lastError it left, the record it was handed (saveConfig), and the flash
\* sector and the namespace as they were when it was called
Prev(op, ret, err, rec, fl, p) ==
    [op |-> op, ret |-> ret, err |-> err, rec |-> rec, flash |-> fl,
     preferences |-> p]
NoPrev ==
    Prev("none", FALSE, NONE, ZeroRecord, [marker |-> 0, rec |-> ZeroRecord],
         NoKeys)

-----------------------------------------------------------------------------
(* The state machine *)

\* the fresh ESP32 device of the pair run, the mirror and the HTTP response
\* before either specification that uses them has started
ZeroEeprom == [marker |-> 0, rec |-> ZeroRecord, dirty |-> FALSE]
NoTwin ==
    [st |-> Store(FALSE, NONE, ZeroEeprom, [marker |-> 0, rec |-> ZeroRecord],
                  NoKeys),
     out |-> ZeroRecord, ret |-> FALSE]
NoResponse == [status |-> 0, body |-> ""]

\* request: how the body parsed ("invalid_request": neither a body nor
\* sensor_name; "invalid_json"; "json"), the name and location it carried,
\* what updateField returned for each, what the final saveConfig returned,
\* and the mirror as it was when the request came in
Request(kind, hasName, newName, nameOk, hasLocation, newLocation, locationOk, saveOk, mirror) ==
    [kind |-> kind, hasName |-> hasName, name |-> newName, nameOk |-> nameOk,
     hasLocation |-> hasLocation, location |-> newLocation,
     locationOk |-> locationOk, saveOk |-> saveOk, mirror |-> mirror]
NoRequest ==
    Request("none", FALSE, <<>>, FALSE, FALSE, <<>>, FALSE, FALSE, ZeroRecord)

\* the members of Storage and the medium, as they are and as a call leaves
\* them
Here == Store(initialized, lastError, eeprom, flash, preferences)
Becomes(st) ==
    /\ initialized' = st.initialized
    /\ lastError' = st.lastError
    /\ eeprom' = st.eeprom
    /\ flash' = st.flash
    /\ preferences' = st.preferences

\* cleared after a write call op that returned ret: a clear that returned
\* true opens the period, the first saveConfig that returns true closes it,
\* and the write call after that one ends "restored"
ClearedAfter(op, ret) ==
    IF op = "clear" /\ ret THEN "cleared"
    ELSE IF cleared = "cleared"
    THEN (IF op = "saveConfig" /\ ret THEN "restored" ELSE "cleared")
    ELSE "no"

\* a 32-bit unsigned long as its two 16-bit halves
U32(hi, lo) == [hi |-> hi, lo |-> lo]

\* a float: NaN, or the number v
Float(v) == [nan |-> FALSE, v |-> v]
NaN == [nan |-> TRUE, v |-> 0]

\* the environment struct of structs.h, in declaration order
Environment(temperature, humidity, pressure, lux) ==
    [temperature |-> temperature, humidity |-> humidity,
     pressure |-> pressure, lux |-> lux]

\* the zero-initialised global env, and poll before any readSensorData
ZeroEnv == Environment(Float(0), Float(0), Float(0), 0)
NoPoll ==
    [variant |-> "none", temp |-> Float(0), press |-> Float(0),
     hum |-> Float(0), lux |-> 0, ret |-> FALSE, before |-> ZeroEnv]

\* wifi before setupWiFi is called: pc is the line setupWiFi is at, status
\* what WiFi.status() would return, mdns what setupMDNS did, waited the
\* time the delays of the wait loop took in all
NoWiFi ==
    [pc |-> "idle", startAttemptTime |-> U32(0, 0), status |-> "WL_IDLE_STATUS",
     exitConnected |-> FALSE, ret |-> FALSE, mdns |-> "none", waited |-> 0]

\* the state outside the persistence layer while only Storage is exercised
PeripheralsIdle ==
    /\ millis = U32(0, 0)
    /\ wifi = NoWiFi
    /\ env = ZeroEnv
    /\ poll = NoPoll

Init ==
    /\ backend \in {"EEPROM", "PREFS"}
    /\ initialized = FALSE
    /\ lastError = NONE
    /\ flash \in (IF backend = "EEPROM" THEN InitialFlash
                  ELSE {[marker |-> 0, rec |-> ZeroRecord]})
    /\ eeprom = ZeroEeprom
    /\ preferences = NoKeys
    /\ out = ZeroRecord
    /\ call = NoCall
    /\ saved = NoSaved
    /\ flips = 0
    /\ writes = 0
    /\ prev = NoPrev
    /\ twin = NoTwin
    /\ cfg = ZeroRecord
    /\ request = NoRequest
    /\ response = NoResponse
    /\ cleared = "no"
    /\ PeripheralsIdle

\* Storage::begin(); openOk: preferences.begin(NAMESPACE, false) succeeds
Begin(openOk) ==
    /\ backend = "EEPROM" => openOk
    /\ LET r == Storage_begin(backend, Here, openOk)
       IN  /\ Becomes(r.st)
           /\ call' = Call("begin", r.ret, "", <<>>, ZeroRecord)
    /\ out' = ZeroRecord
    /\ UNCHANGED peripherals
    /\ UNCHANGED <<backend, cleared, saved, flips, writes, prev, twin, cfg,
                   request, response>>

\* Storage::saveConfig(c); fault: 0 = the commit fails, 7 = the RAM copy
\* read back differs (ESP8266), 1..5 = that key write fails (ESP32), 6 = the
\* medium takes every write
SaveConfig(c, fault) ==
    /\ writes < MaxWrites
    /\ writes' = writes + 1
    /\ backend = "EEPROM" => fault \in {0, 6, 7}
    /\ backend = "PREFS" => fault \in 1..6
    /\ LET r == Storage_saveConfig(backend, Here, c, fault)
       IN  /\ Becomes(r.st)
           /\ call' = Call("saveConfig", r.ret, "", <<>>, c)
           /\ saved' = IF r.ret THEN [set |-> TRUE, rec |-> c, flips |-> 0]
                       ELSE NoSaved
           /\ prev' = Prev("saveConfig", r.ret, r.st.lastError, c, flash,
                           preferences)
    /\ out' = ZeroRecord
    /\ cleared' = ClearedAfter("saveConfig", call'.ret)
    /\ UNCHANGED peripherals
    /\ UNCHANGED <<backend, flips, twin, cfg, request,
                   response>>

\* Storage::loadConfig(c0): c0 is the caller's record as handed in, out the
\* same record when the call returns
LoadConfig(c0) ==
    /\ LET r == Storage_loadConfig(backend, Here, c0)
       IN  /\ Becomes(r.st)
           /\ call' = Call("loadConfig", r.ret, "", <<>>, c0)
           /\ out' = r.cfg
    /\ UNCHANGED peripherals
    /\ UNCHANGED <<backend, cleared, saved, flips, writes, prev, twin, cfg,
                   request, response>>

\* Storage::updateField(field, value); ok: the medium takes the write
UpdateField(field, value, ok) ==
    /\ writes < MaxWrites
    /\ writes' = writes + 1
    /\ LET r == Storage_updateField(backend, Here, field, value, ok)
       IN  /\ Becomes(r.st)
           /\ call' = Call("updateField", r.ret, field, value, ZeroRecord)
           /\ prev' = Prev("updateField", r.ret, r.st.lastError, ZeroRecord,
                           flash, preferences)
    /\ saved' = NoSaved
    /\ out' = ZeroRecord
    /\ cleared' = ClearedAfter("updateField", call'.ret)
    /\ UNCHANGED peripherals
    /\ UNCHANGED <<backend, flips, twin, cfg, request,
                   response>>

\* Storage::clear(); ok: the medium takes the write
Clear(ok) ==
    /\ writes < MaxWrites
    /\ writes' = writes + 1
    /\ LET r == Storage_clear(backend, Here, ok)
       IN  /\ Becomes(r.st)
           /\ call' = Call("clear", r.ret, "", <<>>, ZeroRecord)
           /\ prev' = Prev("clear", r.ret, r.st.lastError, ZeroRecord, flash,
                           preferences)
    /\ saved' = NoSaved
    /\ out' = ZeroRecord
    /\ cleared' = ClearedAfter("clear", call'.ret)
    /\ UNCHANGED peripherals
    /\ UNCHANGED <<backend, flips, twin, cfg, request,
                   response>>

\* the device restarts: the statics of storage.cpp are initialised again,
\* flash and the Preferences namespace keep their content
Reboot ==
    /\ call.op # "none"
    /\ initialized' = FALSE
    /\ lastError' = NONE
    /\ eeprom' = ZeroEeprom
    /\ out' = ZeroRecord
    /\ call' = NoCall
    /\ prev' = NoPrev
    /\ UNCHANGED peripherals
    /\ UNCHANGED <<backend, cleared, flash, preferences, saved, flips, writes,
                   twin, cfg, request, response>>

\* one byte of a record that saveConfig has stored in flash, outside the
\* checksum field, is replaced by a different value while the device is off
\* (offsets 0..79: location, name, wifi_ssid, wifi_pwd)
FieldAt(i) ==
    IF i < FieldSize THEN "location"
    ELSE IF i < 2 * FieldSize THEN "name"
    ELSE IF i < 3 * FieldSize THEN "wifi_ssid"
    ELSE "wifi_pwd"
SetByte(c, i, b) ==
    [c EXCEPT ![FieldAt(i)] = [@ EXCEPT ![(i % FieldSize) + 1] = b]]
GetByte(c, i) == c[FieldAt(i)][(i % FieldSize) + 1]
CorruptBytes == {0, 1, 255}

Corrupt(i, b) ==
    /\ backend = "EEPROM"
    /\ ~initialized
    /\ flips < MaxFlips
    /\ saved.set
    /\ GetByte(flash.rec, i) # b
    /\ flash' = [flash EXCEPT !.rec = SetByte(@, i, b)]
    /\ flips' = flips + 1
    /\ saved' = [saved EXCEPT !.flips = @ + 1]
    /\ call' = NoCall
    /\ UNCHANGED peripherals
    /\ UNCHANGED <<backend, cleared, initialized, lastError, eeprom,
                   preferences, out, writes, prev, twin, cfg, request,
                   response>>

Next ==
    \/ \E openOk \in BOOLEAN : Begin(openOk)
    \/ \E c \in InputRecords, fault \in 0..7 : SaveConfig(c, fault)
    \/ \E c0 \in OutRecords : LoadConfig(c0)
    \/ \E field \in Fields, value \in Values, ok \in BOOLEAN :
          UpdateField(field, value, ok)
    \/ \E ok \in BOOLEAN : Clear(ok)
    \/ Reboot

Spec == Init /\ [][Next]_vars

\* the same device with bit rot: the writes are whole-record saves that the
\* medium takes, and a byte of the flash record may change while the device
\* is off
NextCorrupt ==
    \/ \E openOk \in BOOLEAN : Begin(openOk)
    \/ \E c \in InputRecords : SaveConfig(c, 6)
    \/ \E c0 \in OutRecords : LoadConfig(c0)
    \/ Reboot
    \/ \E i \in 0..(4 * FieldSize - 1), b \in CorruptBytes : Corrupt(i, b)

SpecCorrupt == Init /\ [][NextCorrupt]_vars

\* faulty variant: the mirror is written before storage has answered
UpdateMirror_Always(c, accepted, field, value) ==
    [c EXCEPT ![field] = strlcpy(c[field], value, FieldSize)]

\* "if (Storage::updateField(field, value)) strlcpy(cfg.field, value,
\* sizeof(cfg.field))": the mirror field is overwritten when updateField
\* returned true (accepted) and left alone otherwise
UpdateMirror(c, accepted, field, value) ==
    IF accepted
    THEN [c EXCEPT ![field] = strlcpy(c[field], value, FieldSize)]
    ELSE c

\* handleConfig (network.cpp): the request is parsed, updateField is called
\* for the name and for the location it carries, the mirror field is
\* overwritten after each call that returned true, and the whole mirror is
\* saved when either did.  ok1, ok2: the medium takes the write of the
\* first and the second updateField; fault: as in SaveConfig.  Each step
\* of the handler (u1, cfg1, u2, cfg2, configChanged, sv) is bound to the
\* one value it has, in program order.
HandleConfig(kind, hasName, newName, hasLocation, newLocation, ok1, ok2, fault) ==
    /\ writes < MaxWrites
    /\ writes' = writes + 1
    /\ backend = "EEPROM" => fault \in {0, 6}
    /\ backend = "PREFS" => fault \in 1..6
    /\ IF kind # "json"
       THEN /\ response' =
                 [status |-> 400,
                  body |-> IF kind = "invalid_request"
                           THEN "Invalid request" ELSE "Invalid JSON"]
            /\ request' = Request(kind, FALSE, <<>>, FALSE, FALSE, <<>>,
                                  FALSE, FALSE, cfg)
            /\ UNCHANGED <<initialized, lastError, eeprom, flash,
                           preferences, cfg, saved>>
       ELSE \E u1 \in {IF hasName
                       THEN Storage_updateField(backend, Here, "name",
                                                newName, ok1)
                       ELSE [ret |-> FALSE, st |-> Here]} :
            \E cfg1 \in {UpdateMirror(cfg, u1.ret, "name", newName)} :
            \E u2 \in {IF hasLocation
                       THEN Storage_updateField(backend, u1.st, "location",
                                                newLocation, ok2)
                       ELSE [ret |-> FALSE, st |-> u1.st]} :
            \E cfg2 \in {UpdateMirror(cfg1, u2.ret, "location",
                                      newLocation)} :
            \E configChanged \in {u1.ret \/ u2.ret} :
            \E sv \in {IF configChanged
                       THEN Storage_saveConfig(backend, u2.st, cfg2, fault)
                       ELSE [ret |-> FALSE, st |-> u2.st]} :
                /\ Becomes(sv.st)
                /\ cfg' = cfg2
                /\ response' =
                     IF ~configChanged
                     THEN [status |-> 200, body |-> "No changes made"]
                     ELSE IF sv.ret
                     THEN [status |-> 200,
                           body |-> "Configuration updated successfully"]
                     ELSE [status |-> 500,
                           body |-> "Failed to save configuration"]
                /\ request' = Request(kind, hasName, newName, u1.ret,
                                      hasLocation, newLocation, u2.ret,
                                      sv.ret, cfg)
                /\ saved' = IF sv.ret
                            THEN [set |-> TRUE, rec |-> cfg2, flips |-> 0]
                            ELSE NoSaved
    /\ call' = Call("handleConfig", response'.status = 200, "", <<>>,
                    ZeroRecord)
    /\ prev' = Prev("handleConfig", response'.status = 200, lastError',
                    ZeroRecord, flash, preferences)
    /\ out' = ZeroRecord
    /\ cleared' = IF kind = "json"
                  THEN ClearedAfter("saveConfig", request'.saveOk)
                  ELSE cleared
    /\ UNCHANGED peripherals
    /\ UNCHANGED <<backend, flips, twin>>

\* The device in service: storage holds whatever saveConfig stored, the
\* mirror holds the compiled-in defaults of config.h or a loaded record,
\* and configuration requests arrive.
DefaultCfg ==
    Record(Buffer(<<110, 47, 97>>, 0),
           Buffer(<<101, 116, 104, 111, 95, 115, 101, 110, 115, 111, 114, 95,
                    48, 48, 48>>, 0),
           Buffer(<<69, 84, 72, 79, 83, 67, 79, 80, 69, 95, 87, 73, 70, 73>>,
                  0),
           Buffer(<<69, 84, 72, 79, 83, 67, 79, 80, 69, 95, 49, 50, 51, 52>>,
                  0),
           0)
MirrorRecords == {DefaultCfg, MkRecord(AllSet, 0, "zero")}

\* a value longer than a field: LongLen characters, "A", "B", ...
LongValue == [i \in 1..LongLen |-> 64 + i]
WebValues == {N2, LongValue}
RequestKinds == {"invalid_request", "invalid_json", "json"}

InitWeb ==
    /\ backend \in {"EEPROM", "PREFS"}
    /\ initialized = FALSE
    /\ lastError = NONE
    /\ flash = (IF backend = "EEPROM" THEN ErasedFF
                ELSE [marker |-> 0, rec |-> ZeroRecord])
    /\ eeprom = ZeroEeprom
    /\ preferences = NoKeys
    /\ out = ZeroRecord
    /\ call = NoCall
    /\ saved = NoSaved
    /\ flips = 0
    /\ writes = 0
    /\ prev = NoPrev
    /\ twin = NoTwin
    /\ cfg \in MirrorRecords
    /\ request = NoRequest
    /\ response = NoResponse
    /\ cleared = "no"
    /\ PeripheralsIdle

\* (a saveConfig or an updateField made directly comes first, as the set-up
\* of the device; the requests follow)
NextWeb ==
    \/ \E openOk \in BOOLEAN : Begin(openOk)
    \/ writes = 0 /\ SaveConfig(MkRecord(AllSet, 0, "zero"), 6)
    \/ \E c0 \in OutRecords : LoadConfig(c0)
    \/ \E field \in KnownFields :
          writes = 0 /\ UpdateField(field, LongValue, TRUE)
    \/ \E kind \in RequestKinds \ {"json"} :
          HandleConfig(kind, FALSE, <<>>, FALSE, <<>>, TRUE, TRUE, 6)
    \/ \E hasName, hasLocation \in BOOLEAN, newName, newLocation \in WebValues,
          ok1, ok2 \in BOOLEAN, fault \in {0, 3, 6} :
          /\ hasName \/ (newName = N2 /\ ok1)
          /\ hasLocation \/ (newLocation = N2 /\ ok2)
          /\ HandleConfig("json", hasName, newName, hasLocation, newLocation,
                          ok1, ok2, fault)

SpecWeb == InitWeb /\ [][NextWeb]_vars

\* An ESP8266 build and an ESP32 build side by side, both fresh, given the
\* same calls with the same arguments; neither medium refuses a write.  The
\* ESP8266 build runs in the variables of the single device, the ESP32 build
\* in twin.
PairBegin ==
    /\ LET a == Storage_begin("EEPROM", Here, TRUE)
           b == Storage_begin("PREFS", twin.st, TRUE)
       IN  /\ Becomes(a.st)
           /\ call' = Call("begin", a.ret, "", <<>>, ZeroRecord)
           /\ twin' = [st |-> b.st, out |-> ZeroRecord, ret |-> b.ret]
    /\ out' = ZeroRecord
    /\ UNCHANGED peripherals
    /\ UNCHANGED <<backend, cleared, saved, flips, writes, prev, cfg, request,
                   response>>

PairSaveConfig(c) ==
    /\ writes < MaxWrites
    /\ writes' = writes + 1
    /\ LET a == Storage_saveConfig("EEPROM", Here, c, 6)
           b == Storage_saveConfig("PREFS", twin.st, c, 6)
       IN  /\ Becomes(a.st)
           /\ call' = Call("saveConfig", a.ret, "", <<>>, c)
           /\ twin' = [st |-> b.st, out |-> ZeroRecord, ret |-> b.ret]
    /\ out' = ZeroRecord
    /\ UNCHANGED peripherals
    /\ UNCHANGED <<backend, cleared, saved, flips, prev, cfg, request,
                   response>>

PairLoadConfig(c0) ==
    /\ LET a == Storage_loadConfig("EEPROM", Here, c0)
           b == Storage_loadConfig("PREFS", twin.st, c0)
       IN  /\ Becomes(a.st)
           /\ call' = Call("loadConfig", a.ret, "", <<>>, c0)
           /\ out' = a.cfg
           /\ twin' = [st |-> b.st, out |-> b.cfg, ret |-> b.ret]
    /\ UNCHANGED peripherals
    /\ UNCHANGED <<backend, cleared, saved, flips, writes, prev, cfg, request,
                   response>>

PairUpdateField(field, value) ==
    /\ writes < MaxWrites
    /\ writes' = writes + 1
    /\ LET a == Storage_updateField("EEPROM", Here, field, value, TRUE)
           b == Storage_updateField("PREFS", twin.st, field, value, TRUE)
       IN  /\ Becomes(a.st)
           /\ call' = Call("updateField", a.ret, field, value, ZeroRecord)
           /\ twin' = [st |-> b.st, out |-> ZeroRecord, ret |-> b.ret]
    /\ out' = ZeroRecord
    /\ UNCHANGED peripherals
    /\ UNCHANGED <<backend, cleared, saved, flips, prev, cfg, request,
                   response>>

PairClear ==
    /\ writes < MaxWrites
    /\ writes' = writes + 1
    /\ LET a == Storage_clear("EEPROM", Here, TRUE)
           b == Storage_clear("PREFS", twin.st, TRUE)
       IN  /\ Becomes(a.st)
           /\ call' = Call("clear", a.ret, "", <<>>, ZeroRecord)
           /\ twin' = [st |-> b.st, out |-> ZeroRecord, ret |-> b.ret]
    /\ out' = ZeroRecord
    /\ UNCHANGED peripherals
    /\ UNCHANGED <<backend, cleared, saved, flips, prev, cfg, request,
                   response>>

InitPair == Init /\ backend = "EEPROM"

NextPair ==
    \/ PairBegin
    \/ \E c \in InputRecords : PairSaveConfig(c)
    \/ \E c0 \in OutRecords : PairLoadConfig(c0)
    \/ \E field \in Fields, value \in Values : PairUpdateField(field, value)
    \/ PairClear

SpecPair == InitPair /\ [][NextPair]_vars

-----------------------------------------------------------------------------
(* setupWiFi (network.cpp).  The clock is the 32-bit unsigned long millis() *)
(* returns, kept as two 16-bit halves; it advances while delay(100) runs.  *)
(* WiFi.status() reads what the WiFi stack last reported, and the stack     *)
(* reports between any two steps of setupWiFi.                              *)

\* 2^16: the range of one half of an unsigned long
Half == 65536

\* a + n for n below 2^16, modulo 2^32
U32Add(a, n) ==
    LET lo == a.lo + n
    IN  U32((a.hi + (lo \div Half)) % Half, lo % Half)

\* a - b in unsigned long arithmetic: modulo 2^32
U32Sub(a, b) ==
    LET borrow == IF a.lo < b.lo THEN 1 ELSE 0
    IN  U32((a.hi - b.hi - borrow + 2 * Half) % Half,
            (a.lo - b.lo + Half) % Half)

\* a < n for n below 2^16
U32Less(a, n) == a.hi = 0 /\ a.lo < n

U32Before(a, b) == a.hi < b.hi \/ (a.hi = b.hi /\ a.lo < b.lo)

\* faulty variant: the difference does not wrap, a clock that has passed
\* zero counts as no time elapsed
Elapsed_NoWrap(now, start) ==
    IF U32Before(now, start) THEN U32(0, 0) ELSE U32Sub(now, start)

\* "millis() - startAttemptTime"
Elapsed(now, start) == U32Sub(now, start)

\* the condition of the wait loop
Waiting(status, now, start) ==
    /\ status # WL_CONNECTED
    /\ U32Less(Elapsed(now, start), WIFI_CONNECT_TIMEOUT)

\* lines 4-7: WiFi.mode, WiFi.begin, startAttemptTime = millis()
SetupWiFi_Begin ==
    /\ wifi.pc = "idle"
    /\ wifi' = [wifi EXCEPT !.pc = "while", !.startAttemptTime = millis]
    /\ UNCHANGED millis

\* lines 9-10: the loop condition is evaluated
SetupWiFi_While ==
    /\ wifi.pc = "while"
    /\ wifi' = IF Waiting(wifi.status, millis, wifi.startAttemptTime)
               THEN [wifi EXCEPT !.pc = "delay"]
               ELSE [wifi EXCEPT !.pc = "check",
                                 !.exitConnected =
                                     (wifi.status = WL_CONNECTED)]
    /\ UNCHANGED millis

\* line 11: delay(100) returns after DelayMs + lag milliseconds
SetupWiFi_Delay(lag) ==
    /\ wifi.pc = "delay"
    /\ millis' = U32Add(millis, DelayMs + lag)
    /\ wifi' = [wifi EXCEPT !.pc = "while", !.waited = @ + DelayMs + lag]

\* lines 15-23: the status is read again; setupMDNS (lines 26-32) is called
\* on the connected path, mdnsOk is what MDNS.begin(cfg.name) returns
SetupWiFi_Check(mdnsOk) ==
    /\ wifi.pc = "check"
    /\ wifi' = IF wifi.status # WL_CONNECTED
               THEN [wifi EXCEPT !.pc = "done", !.ret = FALSE]
               ELSE [wifi EXCEPT !.pc = "done", !.ret = TRUE,
                                 !.mdns = IF mdnsOk THEN "advertised"
                                          ELSE "failed"]
    /\ UNCHANGED millis

\* the WiFi stack reports a new status: the association completes, or the
\* link drops
WiFiEvent(status) ==
    /\ wifi.pc \notin {"idle", "done"}
    /\ status # wifi.status
    /\ wifi' = [wifi EXCEPT !.status = status]
    /\ UNCHANGED millis

\* everything but the clock and wifi
StorageFresh ==
    /\ backend \in {"EEPROM", "PREFS"}
    /\ initialized = FALSE
    /\ lastError = NONE
    /\ flash = [marker |-> 0, rec |-> ZeroRecord]
    /\ eeprom = ZeroEeprom
    /\ preferences = NoKeys
    /\ out = ZeroRecord
    /\ call = NoCall
    /\ saved = NoSaved
    /\ flips = 0
    /\ writes = 0
    /\ prev = NoPrev
    /\ twin = NoTwin
    /\ cfg = DefaultCfg
    /\ request = NoRequest
    /\ response = NoResponse
    /\ cleared = "no"
StorageIdle ==
    UNCHANGED <<backend, initialized, lastError, eeprom, flash, preferences,
                out, call, saved, flips, writes, prev, twin, cfg, request,
                response, cleared>>

\* millis() when setupWiFi is called: shortly after boot, and less than the
\* timeout before the clock passes zero
StartTimes == {U32(0, 5000), U32(Half - 1, Half - 15000)}
StatusValues == {WL_DISCONNECTED, WL_CONNECTED}

InitWiFi ==
    /\ StorageFresh
    /\ millis \in StartTimes
    /\ wifi \in {[NoWiFi EXCEPT !.status = st] : st \in StatusValues}
    /\ env = ZeroEnv
    /\ poll = NoPoll

\* one step of setupWiFi
SetupWiFi ==
    /\ StorageIdle
    /\ UNCHANGED <<env, poll>>
    /\ \/ SetupWiFi_Begin
       \/ SetupWiFi_While
       \/ \E lag \in {0, MaxLag} : SetupWiFi_Delay(lag)
       \/ \E mdnsOk \in BOOLEAN : SetupWiFi_Check(mdnsOk)

NextWiFi ==
    \/ SetupWiFi
    \/ \E st \in StatusValues :
          WiFiEvent(st) /\ StorageIdle /\ UNCHANGED <<env, poll>>

\* setupWiFi runs on: the processor keeps executing it, and delay returns
SpecWiFi == InitWiFi /\ [][NextWiFi]_vars /\ WF_vars(SetupWiFi)

-----------------------------------------------------------------------------
(* readSensorData (sensors.cpp), in the firmware of accessories/etho_sensor *)
(* and in the earlier sketch of scripts/esp32_environmental_sensors.  A     *)
(* float is NaN or a number; == and != are those of IEEE 754, under which   *)
(* NaN equals nothing, itself included.                                     *)

\* a == b and a != b on floats
FloatEq(a, b) == ~a.nan /\ ~b.nan /\ a.v = b.v
FloatNe(a, b) == ~FloatEq(a, b)

\* a / b on floats, for the numbers of the model (multiples of b)
FloatDiv(a, b) == IF a.nan THEN NaN ELSE Float(a.v \div b)

\* accessories/etho_sensor/sensors.cpp: temp, press, hum, lux are what
\* bme.readTemperature(), bme.readPressure(), bme.readHumidity() and
\* LightSensor.GetLightIntensity() deliver; e is env before the call
readSensorData(e, temp, press, hum, lux) ==
    IF FloatEq(temp, NaN) THEN [ret |-> FALSE, env |-> e]
    ELSE IF FloatEq(press, NaN) THEN [ret |-> FALSE, env |-> e]
    ELSE [ret |-> TRUE,
          env |-> Environment(temp,
                              IF FloatNe(hum, NaN) THEN hum ELSE e.humidity,
                              FloatDiv(press, 100), lux)]

\* the sketch's sensors.cpp: env is written first, then tested; the loop
\* repeats the read while readSuccess is false and the time is not up, and
\* every pass writes the same readings
readSensorData_sketch(e, temp, press, hum, lux) ==
    LET written == Environment(temp, hum, FloatDiv(press, 100), lux)
        readSuccess == /\ FloatNe(written.temperature, NaN)
                       /\ FloatNe(written.pressure, NaN)
    IN  [ret |-> readSuccess, env |-> written]

\* what the sensors deliver: degrees, pascals, percent, lux
Temperatures == {NaN, Float(21), Float(25)}
Pressures == {NaN, Float(101300), Float(99000)}
Humidities == {NaN, Float(40)}
LightLevels == {0, 300}

\* one poll; variant: which of the two sensors.cpp is built
ReadSensorData(variant, temp, press, hum, lux) ==
    /\ LET r == IF variant = "etho_sensor"
                THEN readSensorData(env, temp, press, hum, lux)
                ELSE readSensorData_sketch(env, temp, press, hum, lux)
       IN  /\ env' = r.env
           /\ poll' = [variant |-> variant, temp |-> temp, press |-> press,
                       hum |-> hum, lux |-> lux, ret |-> r.ret,
                       before |-> env]
    /\ StorageIdle
    /\ UNCHANGED <<millis, wifi>>

InitSensor ==
    /\ StorageFresh
    /\ PeripheralsIdle

NextSensor ==
    \E variant \in {"etho_sensor", "sketch"}, temp \in Temperatures,
       press \in Pressures, hum \in Humidities, lux \in LightLevels :
        ReadSensorData(variant, temp, press, hum, lux)

SpecSensor == InitSensor /\ [][NextSensor]_vars

-----------------------------------------------------------------------------
(* Vocabulary of the properties *)

StorageOps == {"saveConfig", "loadConfig", "updateField", "clear"}

\* the 16-bit byte sum of a record taken with its checksum field as zero
ByteSum16(c) == FieldSum(c) % 65536

NonEmpty(buf) == strlen(buf) > 0

\* a record whose checksum field is consistent with its bytes and whose
\* WiFi fields are set
ValidRecord(c) ==
    /\ c.checksum = ByteSum16(c)
    /\ NonEmpty(c.wifi_ssid)
    /\ NonEmpty(c.wifi_pwd)

\* the checksum the medium holds
StoredChecksum ==
    IF backend = "EEPROM" THEN eeprom.rec.checksum
    ELSE getUShort(preferences, "checksum")

\* ESP8266: the marker is 1 and the stored record passes both gates
ValidStoredEeprom ==
    /\ eeprom.marker = 1
    /\ eeprom.rec.checksum = ByteSum16(eeprom.rec)
    /\ NonEmpty(eeprom.rec.wifi_ssid)
    /\ NonEmpty(eeprom.rec.wifi_pwd)

\* ESP32: the keys hold a record that loads into a zeroed record
ValidStoredPrefs ==
    /\ {"name", "location", "wifi_ssid", "wifi_pwd", "checksum"}
          \subseteq DOMAIN preferences
    /\ Len(preferences["name"]) > 0
    /\ Len(preferences["wifi_ssid"]) > 0
    /\ Len(preferences["wifi_pwd"]) > 0
    /\ preferences["checksum"] =
          (SumBytes(SubSeq(preferences["name"], 1,
                           Min(Len(preferences["name"]), FieldSize - 1)))
           + SumBytes(SubSeq(preferences["location"], 1,
                           Min(Len(preferences["location"]), FieldSize - 1)))
           + SumBytes(SubSeq(preferences["wifi_ssid"], 1,
                           Min(Len(preferences["wifi_ssid"]), FieldSize - 1)))
           + SumBytes(SubSeq(preferences["wifi_pwd"], 1,
                           Min(Len(preferences["wifi_pwd"]), FieldSize - 1))))
          % 65536

\* every byte of the stored record is zero (marker 0 or 1), or every key
\* is absent or empty
ErasedStorage ==
    IF backend = "EEPROM"
    THEN eeprom.rec = ZeroRecord /\ eeprom.marker \in {0, 1}
    ELSE /\ \A k \in {"name", "location", "wifi_ssid", "wifi_pwd"} :
               getString(preferences, k) = <<>>
         /\ getUShort(preferences, "checksum") = 0

\* the durable copy holds exactly the strings of c and the checksum sum
\* (block storage: in flash, under marker 1; key-value store: in the keys)
DurableIs(c, sum) ==
    IF backend = "EEPROM"
    THEN /\ flash.marker = 1
         /\ flash.rec = [c EXCEPT !.checksum = sum]
    ELSE /\ getString(preferences, "name") = CStr(c.name)
         /\ getString(preferences, "location") = CStr(c.location)
         /\ getString(preferences, "wifi_ssid") = CStr(c.wifi_ssid)
         /\ getString(preferences, "wifi_pwd") = CStr(c.wifi_pwd)
         /\ getUShort(preferences, "checksum") = sum

\* a field stays within its 20 bytes and holds a terminator
Bounded(buf) ==
    /\ Len(buf) = FieldSize
    /\ \E i \in 1..FieldSize : buf[i] = 0
RecordBounded(c) ==
    /\ Bounded(c.location)
    /\ Bounded(c.name)
    /\ Bounded(c.wifi_ssid)
    /\ Bounded(c.wifi_pwd)

\* the first 19 characters of a value
Truncated(v) == SubSeq(v, 1, Min(Len(v), FieldSize - 1))

\* a loadConfig that follows a successful saveConfig with no write between
LoadAfterSave ==
    /\ initialized
    /\ call.op = "loadConfig"
    /\ saved.set
    /\ saved.flips = 0

-----------------------------------------------------------------------------
(* Properties *)

\* C1: round trip.  After a saveConfig(R) that returned true for a valid
\* record R (consistent checksum field, WiFi fields set) and no write since,
\* loadConfig returns true and the caller's record equals R, whatever it
\* held before.
C1_RoundTrip ==
    (LoadAfterSave /\ ValidRecord(saved.rec))
        => (call.ret /\ out = saved.rec)

\* C2: before begin() has returned true, saveConfig, loadConfig, updateField
\* and clear return false with NOT_INITIALIZED and change neither the
\* persisted record nor the record handed to loadConfig.
C2_FailFast ==
    [][(~initialized /\ call'.op \in StorageOps)
         => /\ ~call'.ret
            /\ lastError' = NOT_INITIALIZED
            /\ UNCHANGED <<eeprom, flash, preferences>>
            /\ (call'.op = "loadConfig" => out' = call'.rec)]_vars

C2_Witness ==
    /\ ~initialized
    /\ call.op = "loadConfig"
    /\ ~call.ret
    /\ lastError = NOT_INITIALIZED
    /\ out = JunkRecord
    /\ (flash.marker = 1 \/ "name" \in DOMAIN preferences)
    /\ writes > 0

\* C3: loadConfig returns true only if the stored checksum equals the byte
\* sum of the loaded record (checksum field as zero) and both WiFi fields
\* of the loaded record are set; a load that fails a check returns false
\* with VALIDATION_FAILED.
C3_ValidityGate ==
    (initialized /\ call.op = "loadConfig")
        => /\ call.ret => /\ StoredChecksum = ByteSum16(out)
                          /\ NonEmpty(out.wifi_ssid)
                          /\ NonEmpty(out.wifi_pwd)
           /\ ~call.ret => lastError = VALIDATION_FAILED

C3_Witness ==
    /\ initialized
    /\ call.op = "loadConfig"
    /\ ~call.ret
    /\ lastError = VALIDATION_FAILED
    /\ StoredChecksum = ByteSum16(out)
    /\ NonEmpty(out.wifi_ssid)
    /\ ~NonEmpty(out.wifi_pwd)

\* C4: when the stored record is all zero (marker 0 or 1), or every key is
\* absent or empty, loadConfig returns false with VALIDATION_FAILED.
C4_ErasedRejected ==
    (initialized /\ call.op = "loadConfig" /\ ErasedStorage)
        => (~call.ret /\ lastError = VALIDATION_FAILED)

C4_Witness ==
    /\ initialized
    /\ call.op = "loadConfig"
    /\ backend = "EEPROM"
    /\ eeprom.marker = 1
    /\ eeprom.rec = ZeroRecord
    /\ ~call.ret

\* C5: after begin(), updateField with a field name other than name,
\* location, wifi_ssid, wifi_pwd returns false with INVALID_FIELD and leaves
\* the persisted record unchanged.
C5_UnknownFieldRejected ==
    [][(initialized /\ call'.op = "updateField"
          /\ call'.field \notin KnownFields)
         => /\ ~call'.ret
            /\ lastError' = INVALID_FIELD
            /\ UNCHANGED <<eeprom, flash, preferences>>]_vars

\* C6: on block storage with no valid record stored, updateField of a
\* recognised field returns false and writes nothing, and a loadConfig
\* still fails.
C6_NoRecordNoUpdate ==
    /\ [][(backend = "EEPROM" /\ initialized /\ ~ValidStoredEeprom
             /\ call'.op = "updateField" /\ call'.field \in KnownFields)
            => /\ ~call'.ret
               /\ UNCHANGED <<eeprom, flash>>]_vars
    /\ []((backend = "EEPROM" /\ initialized /\ ~ValidStoredEeprom
             /\ call.op = "loadConfig") => ~call.ret)

C6_Witness ==
    /\ backend = "EEPROM"
    /\ initialized
    /\ ~ValidStoredEeprom
    /\ eeprom.marker = 1
    /\ eeprom.rec.name = Buffer(S1, 0)
    /\ eeprom.rec.checksum # ByteSum16(eeprom.rec)
    /\ call.op = "updateField"
    /\ call.field = "name"
    /\ call.value = N2
    /\ ~call.ret

\* C7: on the key-value store with a valid record stored,
\* updateField("wifi_ssid", "") (likewise wifi_pwd) whose write the medium
\* takes returns true, and a loadConfig of a record with an empty WiFi key
\* returns false with VALIDATION_FAILED.
C7_EmptyWifiWriteSucceeds ==
    /\ [][(backend = "PREFS" /\ initialized /\ ValidStoredPrefs
             /\ call'.op = "updateField"
             /\ call'.field \in {"wifi_ssid", "wifi_pwd"}
             /\ call'.value = <<>>
             /\ preferences' = (call'.field :> <<>>) @@ preferences)
            => call'.ret]_vars
    /\ []((backend = "PREFS" /\ initialized /\ call.op = "loadConfig"
             /\ (getString(preferences, "wifi_ssid") = <<>>
                   \/ getString(preferences, "wifi_pwd") = <<>>))
            => (~call.ret /\ lastError = VALIDATION_FAILED))

\* C8: on block storage, after a successful saveConfig, one byte of the
\* stored record outside the checksum field replaced by a different value
\* makes the next loadConfig return false with VALIDATION_FAILED.
C8_SingleByteDetected ==
    (backend = "EEPROM" /\ initialized /\ call.op = "loadConfig"
       /\ saved.set /\ saved.flips = 1)
        => (~call.ret /\ lastError = VALIDATION_FAILED)

\* C9: after a successful saveConfig of a record whose name, wifi_ssid and
\* wifi_pwd are set, loadConfig returns true and the caller's record holds
\* the saved strings and the stored checksum, which is not zero.
C9_LoadCarriesChecksum ==
    (LoadAfterSave /\ NonEmpty(saved.rec.name)
       /\ NonEmpty(saved.rec.wifi_ssid) /\ NonEmpty(saved.rec.wifi_pwd))
        => /\ call.ret
           /\ StrEq(out.name, saved.rec.name)
           /\ StrEq(out.location, saved.rec.location)
           /\ StrEq(out.wifi_ssid, saved.rec.wifi_ssid)
           /\ StrEq(out.wifi_pwd, saved.rec.wifi_pwd)
           /\ out.checksum = StoredChecksum
           /\ out.checksum # 0

\* C10: the checksum saveConfig stores is the byte sum of the record with
\* its checksum field as zero, whatever that field held in the record
\* handed in, and the record then loads.
C10_SaveZeroesChecksum ==
    /\ (call.op = "saveConfig" /\ call.ret)
          => StoredChecksum = ByteSum16(call.rec)
    /\ (LoadAfterSave /\ NonEmpty(saved.rec.name)
          /\ NonEmpty(saved.rec.wifi_ssid) /\ NonEmpty(saved.rec.wifi_pwd))
          => call.ret

\* C11: whenever saveConfig(R) returns true, the durable record is R's four
\* strings and the checksum this call computed from R (on block storage
\* under marker 1), whatever record was stored before the call.
C11_WholeRecordOverwrite ==
    (call.op = "saveConfig" /\ call.ret)
        => DurableIs(call.rec, calculateChecksum(call.rec))

C11_Witness ==
    /\ backend = "EEPROM"
    /\ call.op = "saveConfig"
    /\ call.ret
    /\ prev.flash.marker = 1
    /\ ~NonEmpty(prev.flash.rec.wifi_pwd)
    /\ NonEmpty(prev.flash.rec.wifi_ssid)
    /\ NonEmpty(call.rec.wifi_pwd)
    /\ call.rec.checksum # 0

\* C12: whenever loadConfig returns false with VALIDATION_FAILED (marker,
\* checksum or WiFi gate), the caller's record is as it was before the call.
C12_RejectedLoadLeavesRecord ==
    (initialized /\ call.op = "loadConfig" /\ ~call.ret
       /\ lastError = VALIDATION_FAILED)
        => out = call.rec

\* C13: begin() is idempotent.  Once initialized, begin() returns true and
\* touches neither the backend nor the persisted record; a begin() whose
\* open fails returns false with NOT_INITIALIZED and leaves initialized
\* false, and while initialized is false every begin() opens the backend
\* again, so its result is that of the new open.
C13_BeginIdempotent ==
    [][call'.op = "begin"
         => /\ initialized
                  => /\ call'.ret
                     /\ UNCHANGED <<initialized, eeprom, flash, preferences>>
            /\ (~initialized /\ ~call'.ret)
                  => /\ lastError' = NOT_INITIALIZED
                     /\ ~initialized'
                     /\ UNCHANGED <<flash, preferences>>
            /\ ~initialized => initialized' = call'.ret]_vars

C13_Witness ==
    /\ initialized
    /\ call.op = "begin"
    /\ call.ret
    /\ eeprom.dirty
    /\ prev.op = "saveConfig"
    /\ prev.err = COMMIT_FAILED
    /\ lastError = COMMIT_FAILED

\* C14: given the same calls and no medium failure, the ESP8266 build and
\* the ESP32 build return the same boolean and leave the same lastError
\* after every call, and a loadConfig delivers the same four strings.
C14_BackendEquivalence ==
    (call.op # "none")
        => /\ call.ret = twin.ret
           /\ lastError = twin.st.lastError
           /\ (call.op = "loadConfig" /\ call.ret)
                 => /\ StrEq(out.name, twin.out.name)
                    /\ StrEq(out.location, twin.out.location)
                    /\ StrEq(out.wifi_ssid, twin.out.wifi_ssid)
                    /\ StrEq(out.wifi_pwd, twin.out.wifi_pwd)

\* C15: whenever begin, saveConfig, loadConfig, updateField or clear
\* returns false, lastError is not NONE; and when updateField (ESP8266)
\* fails in its saveConfig, past the load and the field name, lastError is
\* WRITE_FAILED or COMMIT_FAILED.
C15_FailureCarriesError ==
    /\ (call.op # "none" /\ ~call.ret) => lastError # NONE
    /\ (backend = "EEPROM" /\ initialized /\ call.op = "updateField"
          /\ ~call.ret /\ call.field \in KnownFields
          /\ lastError # VALIDATION_FAILED)
          => lastError \in {WRITE_FAILED, COMMIT_FAILED}

\* C16: whenever loadConfig returns true, on either backend, the name of
\* the loaded record is not empty.
C16_LoadedNameNonEmpty ==
    (initialized /\ call.op = "loadConfig" /\ call.ret) => NonEmpty(out.name)

\* C17: whatever the length of the values handed to updateField and
\* handleConfig and of the strings loadConfig reads, every string field of
\* the mirror, of a record loadConfig wrote, and of the block-storage record
\* holds at most 19 characters and a terminator within its 20 bytes, and a
\* value that was accepted is in its field cut to its first 19 characters.
C17_FieldsBounded ==
    /\ RecordBounded(cfg)
    /\ (eeprom.marker \in {0, 1}) => RecordBounded(eeprom.rec)
    /\ (flash.marker \in {0, 1}) => RecordBounded(flash.rec)
    /\ (call.op = "loadConfig" /\ (call.ret \/ out # call.rec))
          => RecordBounded(out)
    /\ (backend = "PREFS" /\ initialized /\ call.op = "loadConfig"
          /\ out # call.rec)
          => /\ CStr(out.name) = Truncated(getString(preferences, "name"))
             /\ CStr(out.location) =
                   Truncated(getString(preferences, "location"))
    /\ (backend = "EEPROM" /\ call.op = "updateField" /\ call.ret)
          => CStr(eeprom.rec[call.field]) = Truncated(call.value)
    /\ (call.op = "handleConfig" /\ request.nameOk)
          => CStr(cfg.name) = Truncated(request.name)
    /\ (call.op = "handleConfig" /\ request.locationOk)
          => CStr(cfg.location) = Truncated(request.location)

C17_Witness ==
    /\ backend = "EEPROM"
    /\ call.op = "handleConfig"
    /\ request.nameOk
    /\ Len(request.name) > FieldSize
    /\ strlen(cfg.name) = FieldSize - 1
    /\ strlen(eeprom.rec.name) = FieldSize - 1
    /\ response.status = 200

\* the strings of two records are the same
SameStrings(a, b) ==
    /\ StrEq(a.name, b.name)
    /\ StrEq(a.location, b.location)
    /\ StrEq(a.wifi_ssid, b.wifi_ssid)
    /\ StrEq(a.wifi_pwd, b.wifi_pwd)

\* the record in flash when the last write call began passes loadConfig
CommittedBefore ==
    /\ prev.flash.marker = 1
    /\ prev.flash.rec.checksum = ByteSum16(prev.flash.rec)
    /\ NonEmpty(prev.flash.rec.wifi_ssid)
    /\ NonEmpty(prev.flash.rec.wifi_pwd)

\* C18: on block storage, after a saveConfig(R) that returned false because
\* the commit failed, a loadConfig in the same run returns the record that
\* was committed before (and fails if none was), never R.
C18_FailedCommitKeepsPrevious ==
    (backend = "EEPROM" /\ initialized /\ call.op = "loadConfig"
       /\ prev.op = "saveConfig" /\ ~prev.ret /\ prev.err = COMMIT_FAILED)
        => /\ call.ret => (CommittedBefore /\ SameStrings(out, prev.flash.rec))
           /\ CommittedBefore => call.ret

\* a field of the loaded record that saveConfig(R) wrote and that differs
\* from what was stored before, and one left from before that differs from R
FromNew(f) ==
    /\ CStr(out[f]) = CStr(prev.rec[f])
    /\ CStr(out[f]) # getString(prev.preferences, f)
FromOld(f) ==
    /\ CStr(out[f]) = getString(prev.preferences, f)
    /\ CStr(out[f]) # CStr(prev.rec[f])

\* C19: on the key-value store, after a saveConfig(R) that returned false
\* with only some of its keys written, no loadConfig returns true with a
\* record that holds a field of R beside a field of the record stored
\* before.
C19_NoTornRecord ==
    (backend = "PREFS" /\ initialized /\ call.op = "loadConfig" /\ call.ret
       /\ prev.op = "saveConfig" /\ ~prev.ret /\ prev.err = WRITE_FAILED)
        => ~((\E f \in KnownFields : FromNew(f))
               /\ (\E f \in KnownFields : FromOld(f)))

\* C20: on block storage saveConfig returns true, with lastError NONE, only
\* if the commit went through (flash holds marker 1 and the record written,
\* the RAM copy is clean) and the copy read back holds marker 1, the
\* checksum written and the four strings; when the commit failed it returns
\* false with COMMIT_FAILED and flash is as before; when the copy read back
\* differs it returns false with WRITE_FAILED.
C20_SaveVerifies ==
    (backend = "EEPROM" /\ initialized /\ call.op = "saveConfig")
        => LET sum == calculateChecksum(call.rec)
               matches == /\ eeprom.marker = 1
                          /\ eeprom.rec.checksum = sum
                          /\ SameStrings(call.rec, eeprom.rec)
           IN  /\ call.ret
                     => /\ lastError = NONE
                        /\ ~eeprom.dirty
                        /\ flash.marker = 1
                        /\ flash.rec = [call.rec EXCEPT !.checksum = sum]
                        /\ matches
               /\ eeprom.dirty
                     => /\ ~call.ret
                        /\ lastError = COMMIT_FAILED
                        /\ flash = prev.flash
               /\ (~eeprom.dirty /\ ~matches)
                     => (~call.ret /\ lastError = WRITE_FAILED)

C20_Witness ==
    /\ backend = "EEPROM"
    /\ initialized
    /\ call.op = "saveConfig"
    /\ ~call.ret
    /\ lastError = WRITE_FAILED
    /\ ~eeprom.dirty
    /\ eeprom.marker # 1
    /\ flash.marker = 1
    /\ flash.rec.name = call.rec.name

\* what loadConfig delivered from the medium as the last write call found it
\* (block storage: the committed sector; key-value store: the namespace)
LoadBefore ==
    IF backend = "EEPROM"
    THEN loadConfig_eeprom(ZeroRecord, EepromBegin(prev.flash))
    ELSE loadConfig_prefs(ZeroRecord, prev.preferences)

\* C21: on either backend holding a valid record, when updateField(f, v)
\* returns true for a recognised field f and a non-empty value v, the next
\* loadConfig returns true with field f equal to v cut to 19 characters and
\* the other three strings as they were before the update.
C21_FieldUpdateLoads ==
    [][(initialized /\ call.op = "updateField" /\ call.ret
          /\ call.field \in KnownFields /\ call.value # <<>>
          /\ prev.op = "updateField" /\ LoadBefore.ret
          /\ call'.op = "loadConfig")
         => /\ call'.ret
            /\ CStr(out'[call.field]) = Truncated(call.value)
            /\ \A g \in KnownFields \ {call.field} :
                  CStr(out'[g]) = CStr(LoadBefore.cfg[g])]_vars

\* C22: after clear() returned true, on either backend, every loadConfig
\* returns false with VALIDATION_FAILED, and on block storage every
\* updateField returns false, until a saveConfig returns true; after that
\* saveConfig the loadConfig succeeds again.
C22_ClearInvalidates ==
    /\ (initialized /\ cleared = "cleared" /\ call.op = "loadConfig")
          => (~call.ret /\ lastError = VALIDATION_FAILED)
    /\ (backend = "EEPROM" /\ cleared = "cleared" /\ call.op = "updateField")
          => ~call.ret
    /\ (initialized /\ cleared = "restored" /\ call.op = "loadConfig")
          => call.ret

\* C23: in handleConfig the mirror cfg is changed only after storage
\* accepted the change: cfg.name (cfg.location) is overwritten only if its
\* updateField returned true and keeps its previous value otherwise, the
\* other fields of the mirror stay as they were, and no call of the Storage
\* facade writes to cfg.
C23_MirrorAfterStorage ==
    /\ [](call.op = "handleConfig"
            => /\ ~request.nameOk => cfg.name = request.mirror.name
               /\ ~request.locationOk
                     => cfg.location = request.mirror.location
               /\ cfg.wifi_ssid = request.mirror.wifi_ssid
               /\ cfg.wifi_pwd = request.mirror.wifi_pwd
               /\ cfg.checksum = request.mirror.checksum)
    /\ [][call'.op \in StorageOps \cup {"begin"} => cfg' = cfg]_vars

C23_Witness ==
    /\ call.op = "handleConfig"
    /\ request.hasName
    /\ ~request.nameOk
    /\ request.name # CStr(request.mirror.name)
    /\ cfg.name = request.mirror.name
    /\ request.locationOk
    /\ cfg.location # request.mirror.location
    /\ response.status = 200

\* a requested update that storage refused: an updateField that returned
\* false, or the final saveConfig that did
StorageRefused ==
    \/ request.hasName /\ ~request.nameOk
    \/ request.hasLocation /\ ~request.locationOk
    \/ (request.nameOk \/ request.locationOk) /\ ~request.saveOk

\* C24: in handleConfig, whenever a requested name or location update fails
\* in storage (updateField or the final saveConfig returns false), the HTTP
\* response is an error status, never 200.
C24_FailuresSurfaced ==
    (call.op = "handleConfig" /\ request.kind = "json" /\ StorageRefused)
        => response.status >= 400

\* loadConfig into a zeroed record would return true: now, and after a
\* restart (block storage: from the committed sector)
LoadsNow == Storage_loadConfig(backend, Here, ZeroRecord).ret
LoadsDurable ==
    Storage_loadConfig(backend,
                       Store(TRUE, NONE, EepromBegin(flash), flash,
                             preferences),
                       ZeroRecord).ret

\* C25: a configuration request never destroys a valid stored
\* configuration.  If loadConfig would succeed before handleConfig runs with
\* non-empty name and location values, it still succeeds on the persisted
\* record after handleConfig, whatever the response and whichever storage
\* call failed.
C25_RequestKeepsValidRecord ==
    [][(initialized /\ LoadsNow /\ LoadsDurable /\ call'.op = "handleConfig"
          /\ (request'.hasName => request'.name # <<>>)
          /\ (request'.hasLocation => request'.location # <<>>))
         => (LoadsNow' /\ LoadsDurable')]_vars

\* C26: whenever handleConfig answers 200 with "Configuration updated
\* successfully", a loadConfig performed right afterwards returns true with
\* name, location, wifi_ssid and wifi_pwd equal to those of the mirror cfg
\* (the loadConfig is handed a zeroed record).
C26_MirrorMatchesDurable ==
    [][(call.op = "handleConfig" /\ response.status = 200
          /\ response.body = "Configuration updated successfully"
          /\ call'.op = "loadConfig" /\ call'.rec = ZeroRecord)
         => (call'.ret /\ SameStrings(out', cfg))]_vars

\* C27: whenever begin, saveConfig, loadConfig, updateField or clear returns
\* true, lastError is NONE right afterwards, whatever error an earlier
\* failed operation had left.
C27_SuccessClearsError ==
    (call.op \in StorageOps \cup {"begin"} /\ call.ret) => lastError = NONE

\* C28: setupWiFi never livelocks.  With the clock advancing, also across
\* its wrap-around modulo 2^32, the wait loop goes on only while WiFi is not
\* connected and less than WIFI_CONNECT_TIMEOUT ms have elapsed, it is left
\* only when WiFi is connected or the time is up, and setupWiFi returns;
\* it returns true, with setupMDNS called, exactly when the status read
\* after the loop is connected, and false with mDNS untouched otherwise.
C28_SetupWiFiReturns ==
    /\ [](wifi.pc = "delay" => wifi.waited < WIFI_CONNECT_TIMEOUT)
    /\ [](wifi.pc \in {"check", "done"}
            => (wifi.exitConnected \/ wifi.waited >= WIFI_CONNECT_TIMEOUT))
    /\ [](wifi.pc = "done"
            => /\ wifi.ret <=> (wifi.status = WL_CONNECTED)
               /\ wifi.ret <=> (wifi.mdns # "none"))
    /\ (wifi.pc = "while" ~> wifi.pc = "done")

C28_Witness ==
    /\ wifi.pc = "done"
    /\ ~wifi.ret
    /\ wifi.mdns = "none"
    /\ wifi.waited >= WIFI_CONNECT_TIMEOUT
    /\ U32Before(millis, wifi.startAttemptTime)

\* C29: when the sensor delivers NaN for temperature or for pressure,
\* readSensorData returns false and leaves every field of env unchanged;
\* env is overwritten only by a poll that returns true.
C29_StaleOnFailure ==
    /\ (poll.variant # "none" /\ (poll.temp.nan \/ poll.press.nan))
          => (~poll.ret /\ env = poll.before)
    /\ (poll.variant # "none" /\ env # poll.before) => poll.ret

====
